---- MODULE Spec2Model ----
(***************************************************************************)
(* A model of src/src/vision-simulation.js (VisionSimulation) together     *)
(* with the ImageHandler it loads its terrain through.                     *)
(*                                                                         *)
(* Conventions                                                             *)
(*   - a coordinate key "x,y" (xy2key) is the pair <<x, y>>;               *)
(*   - a tree origin (pt.x - 0.5, pt.y - 0.5) is kept in doubled           *)
(*     coordinates <<2*pt.x - 1, 2*pt.y - 1>>, so Math.floor and Math.ceil *)
(*     of an origin coordinate are computed, not assumed;                  *)
(*   - a JavaScript object used as a map is a function whose DOMAIN is the *)
(*     set of keys present ("key in obj" is "key \in DOMAIN obj");         *)
(*   - a field that holds undefined / null / an object is tracked by the   *)
(*     variable terrain ("undefined", "null", "built");                    *)
(*   - a thrown exception is the result "TypeError" of the operation.      *)
(***************************************************************************)
EXTENDS Integers, Sequences, FiniteSets, TLC

\* ------------------------------------------------------------------ bounds
GridW == 4
GridH == 2
MaxInits == 2
MaxRadius == 1

\* ------------------------------------------------------- program constants
TreeElevationOffset == 40
DefaultRadius == 25
TileSize == 64
WorldMinX == -8288
WorldMinY == -8288

\* a number that stands for JavaScript's undefined in a numeric field
Undef == -1

VARIABLES
    ready,             \* this.ready
    terrain,           \* "undefined" | "null" | "built": gridnav, ent_fow_blocker_node,
                       \* tools_no_wards, elevationGrid and the tree maps
    gridnav,           \* this.gridnav: set of keys
    ent_fow_blocker_node, \* this.ent_fow_blocker_node: set of keys
    tools_no_wards,    \* this.tools_no_wards: set of keys
    elevationValues,   \* this.elevationValues: sequence of distinct levels
    elevationGrid,     \* this.elevationGrid: key -> z
    elevationWalls,    \* this.elevationWalls: level -> set of keys (lazy cache)
    treeWalls,         \* this.treeWalls: level -> key -> sequence of descriptors
    tree,              \* this.tree: the origins, in insertion order
    tree_elevations,   \* this.tree_elevations: origin -> elevation
    tree_blocks,       \* this.tree_blocks: origin -> sequence of 4 corners
    tree_relations,    \* this.tree_relations: corner -> sequence of origins
    tree_state,        \* this.tree_state: origin -> BOOLEAN
    lights,            \* this.lights: set of keys (each with value 255)
    area,              \* this.area
    lightArea,         \* this.lightArea
    elevation,         \* this.elevation
    radius,            \* this.radius
    handlers,          \* every ImageHandler created so far, in order of creation
    key2pt_cache,      \* the module's key2pt_cache: key -> the point memoized, kept as
                       \* the instance it was made through and the number of
                       \* initialize calls of that instance so far
    lastOp,            \* the last operation, its arguments and its result
    pre,               \* tree registry and wall cache before the last toggleTree
    probe              \* the query that preceded the last toggleTree

instVars == <<ready, terrain, gridnav, ent_fow_blocker_node, tools_no_wards,
              elevationValues, elevationGrid, elevationWalls, treeWalls,
              tree, tree_elevations, tree_blocks, tree_relations, tree_state,
              lights, area, lightArea, elevation, radius>>

vars == <<ready, terrain, gridnav, ent_fow_blocker_node, tools_no_wards,
          elevationValues, elevationGrid, elevationWalls, treeWalls,
          tree, tree_elevations, tree_blocks, tree_relations, tree_state,
          lights, area, lightArea, elevation, radius, handlers, key2pt_cache,
          lastOp, pre, probe>>

\* ----------------------------------------------------------------- helpers
Range(s) == {s[i] : i \in DOMAIN s}

Put(f, k, v) == [x \in (DOMAIN f) \cup {k} |-> IF x = k THEN v ELSE f[x]]

EmptyMap == [x \in {} |-> 0]

\* F applied to the value of v, v evaluated once
Let(v, F(_)) == CHOOSE y \in {F(x) : x \in {v}} : TRUE

NoDup(s) == \A i, j \in DOMAIN s : i # j => s[i] # s[j]

\* Math.floor and Math.ceil of a coordinate kept doubled
FloorHalf(d) == d \div 2
CeilHalf(d) == -((-d) \div 2)

\* xy2key (src/src/vision-simulation.js:41)
xy2key(x, y) == <<x, y>>

\* the cells of the grid, [0,gridWidth) x [0,gridHeight)
Cells == {<<x, y>> : x \in 0..(GridW - 1), y \in 0..(GridH - 1)}

\* every key a tree corner can have: the grid and the ring around it
Keys == {<<x, y>> : x \in (-1)..GridW, y \in (-1)..GridH}

\* ------------------------------------------------------ coordinate system
ImageXYtoGridXY(x, y) == <<x, GridH - y - 1>>

\* a faulty GridXYtoImageXY: the row is counted from 1
GridXYtoImageXYFromOne(gX, gY) == <<gX, GridH - gY>>

GridXYtoImageXY(gX, gY) == <<gX, GridH - gY - 1>>

\* worldMaxX and worldMaxY of a world whose grid is GridW x GridH:
\* gridWidth = worldWidth / 64 + 1
WorldMaxX == WorldMinX + TileSize * (GridW - 1)
WorldMaxY == WorldMinY + TileSize * (GridH - 1)

\* Math.round(n / d), d > 0: halves round up
Round(n, d) == (2 * n + d) \div (2 * d)

\* WorldXYtoGridXY(wX, wY), bNoRound omitted
WorldXYtoGridXY(wX, wY) ==
    <<Round(wX - WorldMinX, TileSize), Round(wY - WorldMinY, TileSize)>>

GridXYtoWorldXY(gX, gY) == <<gX * TileSize + WorldMinX, gY * TileSize + WorldMinY>>

\* ------------------------------------------------------------ terrain data
(***************************************************************************)
(* The decoded raster: five bands of gridWidth x gridHeight pixels, each   *)
(* pixel <<r, g, b>>, in image coordinates (y grows downwards).            *)
(*   "trees"  one level (0) plus a plateau in the last column; three trees,*)
(*            two of them sharing two corners, one on the grid's edge;     *)
(*   "field"  flat, one tree in the middle, nothing else;                  *)
(*   "blocks" two levels, one tall tree, blockers in every static band;    *)
(*   "flat"   one level, no tree, no blocker;                              *)
(*   "ridge"  flat but for one column one step higher, no tree.            *)
(***************************************************************************)
MapNames == {"trees", "field", "blocks"}

White == <<255, 255, 255>>
Black == <<0, 0, 0>>

ElevationPixel(m, x, y) ==
    CASE m = "trees"  -> IF x = GridW - 1 THEN <<50, 50, 50>> ELSE Black
      [] m = "field"  -> Black
      [] m = "blocks" -> IF y = 0 THEN <<50, 50, 50>> ELSE Black
      [] m = "flat"   -> Black
      [] m = "ridge"  -> IF x = 2 THEN <<1, 1, 1>> ELSE Black

TreePixel(m, x, y) ==
    CASE m = "trees"  -> IF x = 2 /\ y = 0 THEN <<0, 0, 0>>
                         ELSE IF x = 3 /\ y = 0 THEN <<20, 0, 0>>
                         ELSE IF x = 0 /\ y = GridH - 1 THEN <<0, 0, 0>>
                         ELSE White
      [] m = "field"  -> IF x = 2 /\ y = 0 THEN <<0, 0, 0>> ELSE White
      [] m = "blocks" -> IF x = 1 /\ y = 0 THEN <<20, 0, 0>>
                         ELSE IF x = 3 /\ y = 1 THEN <<0, 255, 0>>
                         ELSE White
      [] m \in {"flat", "ridge"} -> White

GridnavPixel(m, x, y) ==
    IF m = "blocks" /\ x = 0 /\ y = 0 THEN Black ELSE White

FowPixel(m, x, y) ==
    IF m = "blocks" /\ x = GridW - 1 /\ y = GridH - 1 THEN Black ELSE White

NoWardsPixel(m, x, y) ==
    IF m = "blocks" /\ x = 1 /\ y = GridH - 1 THEN Black ELSE White

\* imageHandler.scan: pixel k of a band, rows top to bottom, left to right
ScanX(k) == (k - 1) % GridW
ScanY(k) == (k - 1) \div GridW
NPixels == GridW * GridH

\* blackPixelHandler over a band
BlackPixels(m, band) ==
    {ImageXYtoGridXY(x, y) : <<x, y>> \in
        {p \in {<<ix, iy>> : ix \in 0..(GridW - 1), iy \in 0..(GridH - 1)} :
            LET px == CASE band = "gridnav" -> GridnavPixel(m, p[1], p[2])
                        [] band = "fow"     -> FowPixel(m, p[1], p[2])
                        [] band = "nowards" -> NoWardsPixel(m, p[1], p[2])
            IN px[1] = 0}}

\* elevationPixelHandler over the elevation band: the grid
ParseElevationGrid(m) ==
    LET Px == {<<ix, iy>> : ix \in 0..(GridW - 1), iy \in 0..(GridH - 1)}
    IN [c \in {ImageXYtoGridXY(p[1], p[2]) : p \in Px} |->
            LET p == CHOOSE q \in Px : ImageXYtoGridXY(q[1], q[2]) = c
            IN ElevationPixel(m, p[1], p[2])[1]]

\* elevationPixelHandler over the elevation band: the distinct levels, in scan order
RECURSIVE ParseElevationValues(_, _, _)
ParseElevationValues(m, k, acc) ==
    IF k > NPixels THEN acc
    ELSE LET z == ElevationPixel(m, ScanX(k), ScanY(k))[1]
         IN ParseElevationValues(m, k + 1,
                IF z \in Range(acc) THEN acc ELSE Append(acc, z))

\* a faulty footprint: Math.ceil on the x axis both times, two cells listed twice
TreeCornersCeil(o) ==
    << <<CeilHalf(o[1]), FloorHalf(o[2])>>, <<CeilHalf(o[1]), CeilHalf(o[2])>>,
       <<CeilHalf(o[1]), FloorHalf(o[2])>>, <<CeilHalf(o[1]), CeilHalf(o[2])>> >>

\* the 2x2 footprint of an origin: floor/ceil on each axis, in the code's order
TreeCorners(o) ==
    << <<FloorHalf(o[1]), FloorHalf(o[2])>>, <<FloorHalf(o[1]), CeilHalf(o[2])>>,
       <<CeilHalf(o[1]),  FloorHalf(o[2])>>, <<CeilHalf(o[1]),  CeilHalf(o[2])>> >>

\* treeElevationPixelHandler applied to one pixel, on the registry so far
TreePixelHandler(reg, x, y, p) ==
    LET pt == ImageXYtoGridXY(x, y)
        o  == <<2 * pt[1] - 1, 2 * pt[2] - 1>>
        cs == TreeCorners(o)
        addRel(rel, c) == Put(rel, c, (IF c \in DOMAIN rel THEN rel[c] ELSE <<>>) \o <<o>>)
    IN IF p[2] = 0 /\ p[3] = 0
       THEN [tree       |-> IF o \in Range(reg.tree) THEN reg.tree ELSE Append(reg.tree, o),
             elevations |-> Put(reg.elevations, o, p[1] + TreeElevationOffset),
             blocks     |-> Put(reg.blocks, o, cs),
             state      |-> Put(reg.state, o, TRUE),
             relations  |-> addRel(addRel(addRel(addRel(reg.relations, cs[1]), cs[2]), cs[3]), cs[4])]
       ELSE reg

RECURSIVE ParseTrees(_, _, _)
ParseTrees(m, k, reg) ==
    IF k > NPixels THEN reg
    ELSE ParseTrees(m, k + 1,
            TreePixelHandler(reg, ScanX(k), ScanY(k), TreePixel(m, ScanX(k), ScanY(k))))

\* ------------------------------------------------------- obstruction model
\* a faulty generateElevationWalls: a cell one step above the level is no wall
generateElevationWallsTwoUp(data, e) ==
    {c \in DOMAIN data :
        /\ data[c] > e + 1
        /\ \E i \in {-1, 0, 1}, j \in {-1, 0, 1} :
              /\ (i # 0 \/ j # 0)
              /\ <<c[1] + i, c[2] + j>> \in DOMAIN data
              /\ data[<<c[1] + i, c[2] + j>>] <= e}

\* a faulty generateElevationWalls: a neighbour at the level itself does not count
generateElevationWallsStrict(data, e) ==
    {c \in DOMAIN data :
        /\ data[c] > e
        /\ \E i \in {-1, 0, 1}, j \in {-1, 0, 1} :
              /\ (i # 0 \/ j # 0)
              /\ <<c[1] + i, c[2] + j>> \in DOMAIN data
              /\ data[<<c[1] + i, c[2] + j>>] < e}

\* generateElevationWalls(data, elevation)
generateElevationWalls(data, e) ==
    {c \in DOMAIN data :
        /\ data[c] > e
        /\ \E i \in {-1, 0, 1}, j \in {-1, 0, 1} :
              /\ (i # 0 \/ j # 0)
              /\ <<c[1] + i, c[2] + j>> \in DOMAIN data
              /\ data[<<c[1] + i, c[2] + j>>] <= e}

\* obj[k] = (obj[k] || []).concat([d])
Concat(obj, k, d) == Put(obj, k, (IF k \in DOMAIN obj THEN obj[k] ELSE <<>>) \o <<d>>)

\* the forEach over tree_blocks[i] appending the descriptor of tree o
AddDescriptors(obj, blocks, o) ==
    Concat(Concat(Concat(Concat(obj, blocks[1], o), blocks[2], o), blocks[3], o), blocks[4], o)

\* setTreeWalls(obj, elevation, tree, tree_elevations, tree_state, tree_blocks)
RECURSIVE setTreeWalls(_, _, _, _, _, _, _)
setTreeWalls(obj, e, tr, elevs, state, blocks, i) ==
    IF i > Len(tr) THEN obj
    ELSE LET o == tr[i]
         IN setTreeWalls(
                IF e < elevs[o] /\ state[o] THEN AddDescriptors(obj, blocks[o], o) ELSE obj,
                e, tr, elevs, state, blocks, i + 1)

\* a faulty lightPassesCallback: cells that cannot be walked block light too
lightPassesGridnav(env, x, y) ==
    LET key == xy2key(x, y)
    IN /\ ~(key \in env.elevationWalls[env.elevation])
       /\ ~(key \in env.fow)
       /\ ~(key \in env.gridnav)
       /\ ~(key \in DOMAIN env.treeWalls[env.elevation]
            /\ Len(env.treeWalls[env.elevation][key]) > 0)

\* a faulty lightPassesCallback: field-of-view blockers let light through
lightPassesNoFow(env, x, y) ==
    LET key == xy2key(x, y)
    IN /\ ~(key \in env.elevationWalls[env.elevation])
       /\ ~(key \in DOMAIN env.treeWalls[env.elevation]
            /\ Len(env.treeWalls[env.elevation][key]) > 0)

\* a faulty lightPassesCallback: a corner blocks as soon as treeWalls has an
\* entry for it, emptied or not
lightPassesAnyEntry(env, x, y) ==
    LET key == xy2key(x, y)
    IN /\ ~(key \in env.elevationWalls[env.elevation])
       /\ ~(key \in env.fow)
       /\ ~(key \in DOMAIN env.treeWalls[env.elevation])

\* lightPassesCallback(x, y), reading this.elevation, this.elevationWalls,
\* this.ent_fow_blocker_node and this.treeWalls through env
lightPassesCallback(env, x, y) ==
    LET key == xy2key(x, y)
    IN /\ ~(key \in env.elevationWalls[env.elevation])
       /\ ~(key \in env.fow)
       /\ ~(key \in DOMAIN env.treeWalls[env.elevation]
            /\ Len(env.treeWalls[env.elevation][key]) > 0)

\* ------------------------------------------------ precise shadowcasting
(***************************************************************************)
(* ROT.FOV.PreciseShadowcasting with topology 8 (rot6.js is not part of    *)
(* the sources at hand; modelled from the specification, section 4.4):     *)
(* concentric square rings around the origin, each cell an arc [A1, A2] of *)
(* the ring, arcs kept as exact fractions <<numerator, denominator>>, and  *)
(* SHADOWS the sorted list of the edges of the arcs already blocked. An    *)
(* opaque cell is visited (and may be seen) and then shadows what is       *)
(* behind it.                                                              *)
(***************************************************************************)
\* cell i (from 0) of the ring of radius r around (cx, cy): 8r cells
CircleCell(cx, cy, r, i) ==
    LET side == i \div (2 * r)
        j    == i % (2 * r)
    IN CASE side = 0 -> <<cx - r, cy + r - j>>
         [] side = 1 -> <<cx - r + j, cy - r>>
         [] side = 2 -> <<cx + r, cy - r + j>>
         [] side = 3 -> <<cx + r - j, cy + r>>

SetMin(S) == CHOOSE x \in S : \A y \in S : x <= y
SetMax(S) == CHOOSE x \in S : \A y \in S : x >= y

Splice(S, idx, remove, items) ==
    SubSeq(S, 1, idx) \o items \o SubSeq(S, idx + remove + 1, Len(S))

\* index1: the first shadow edge >= A1 (Len(S) when there is none)
Index1(S, A1) ==
    LET ge1 == {i \in 0..(Len(S) - 1) : S[i + 1][1] * A1[2] - A1[1] * S[i + 1][2] >= 0}
    IN IF ge1 = {} THEN Len(S) ELSE SetMin(ge1)

\* index2: the last shadow edge <= A2 (-1 when there is none)
Index2(S, A2) ==
    LET le2 == {i \in 0..(Len(S) - 1) : A2[1] * S[i + 1][2] - S[i + 1][1] * A2[2] >= 0}
    IN IF le2 = {} THEN -1 ELSE SetMax(le2)

\* the visible part vl of an arc of length al: all of it, some of it
ArcRatio(vl, al) == [full |-> vl[1] * al[2] = al[1] * vl[2], some |-> vl[1] # 0]

CheckArcAt(A1, A2, blocks, S, index1, index2) ==
    LET edge1 == /\ index1 < Len(S)
                 /\ S[index1 + 1][1] * A1[2] - A1[1] * S[index1 + 1][2] = 0
                 /\ index1 % 2 = 0
        edge2 == /\ index2 >= 0
                 /\ A2[1] * S[index2 + 1][2] - S[index2 + 1][1] * A2[2] = 0
                 /\ index2 % 2 = 1
        hidden == \/ (index1 = index2 /\ (edge1 \/ edge2))
                  \/ (edge1 /\ edge2 /\ index1 + 1 = index2 /\ index2 % 2 = 1)
                  \/ (index1 > index2 /\ index1 % 2 = 1)
        remove == index2 - index1 + 1
        arcLength == <<A2[1] * A1[2] - A1[1] * A2[2], A1[2] * A2[2]>>
    IN IF hidden THEN [full |-> FALSE, some |-> FALSE, S |-> S]
       ELSE IF remove % 2 = 1
       THEN IF index1 % 2 = 1
            THEN LET P == S[index1 + 1]
                     v == ArcRatio(<<A2[1] * P[2] - P[1] * A2[2], P[2] * A2[2]>>, arcLength)
                 IN [full |-> v.full, some |-> v.some,
                     S |-> IF blocks THEN Splice(S, index1, remove, <<A2>>) ELSE S]
            ELSE LET P == S[index2 + 1]
                     v == ArcRatio(<<P[1] * A1[2] - A1[1] * P[2], A1[2] * P[2]>>, arcLength)
                 IN [full |-> v.full, some |-> v.some,
                     S |-> IF blocks THEN Splice(S, index1, remove, <<A1>>) ELSE S]
       ELSE IF index1 % 2 = 1
            THEN LET P1 == S[index1 + 1]
                     P2 == S[index2 + 1]
                     v == ArcRatio(<<P2[1] * P1[2] - P1[1] * P2[2], P1[2] * P2[2]>>, arcLength)
                 IN [full |-> v.full, some |-> v.some,
                     S |-> IF blocks THEN Splice(S, index1, remove, <<>>) ELSE S]
            ELSE [full |-> TRUE, some |-> TRUE,
                  S |-> IF blocks THEN Splice(S, index1, remove, <<A1, A2>>) ELSE S]

\* one arc that does not wrap around: [full, some, S]
CheckArc(A1, A2, blocks, S) ==
    IF S = <<>>
    THEN [full |-> TRUE, some |-> TRUE, S |-> IF blocks THEN <<A1, A2>> ELSE S]
    ELSE Let(Index1(S, A1), LAMBDA index1 :
         Let(Index2(S, A2), LAMBDA index2 :
             CheckArcAt(A1, A2, blocks, S, index1, index2)))

\* _checkVisibility: an arc that wraps around 0 is split in two
CheckVisibility(A1, A2, blocks, S) ==
    IF A1[1] > A2[1]
    THEN Let(CheckArc(A1, <<A1[2], A1[2]>>, blocks, S), LAMBDA v1 :
         Let(CheckArc(<<0, 1>>, A2, blocks, v1.S), LAMBDA v2 :
             [full |-> v1.full /\ v2.full, some |-> v1.some \/ v2.some, S |-> v2.S]))
    ELSE CheckArc(A1, A2, blocks, S)

\* a ring farther from a grid cell than the grid is wide and high lies wholly
\* outside Keys: it holds no grid cell and no corner of a tree, and the sweep
\* of a larger radius stops there
SweepCap == IF GridW > GridH THEN GridW ELSE GridH

\* a cell outside Keys never blocks (it leaves SHADOWS as they are) and is never
\* lit: the sweep passes over it, and seen holds the visited cells of Keys only
Max2(a, b) == IF a > b THEN a ELSE b
Min2(a, b) == IF a < b THEN a ELSE b

\* cell i of the ring of radius r; st.done once the whole circle is in shadow
SweepCell(env, cx, cy, r, i, st) ==
    LET n  == 8 * r
        A1 == <<IF i > 0 THEN 2 * i - 1 ELSE 2 * n - 1, 2 * n>>
        A2 == <<2 * i + 1, 2 * n>>
    IN Let(CircleCell(cx, cy, r, i), LAMBDA c :
       Let(CheckVisibility(A1, A2, ~lightPassesCallback(env, c[1], c[2]), st.S),
           LAMBDA v :
             [S    |-> v.S,
              full |-> IF v.full THEN st.full \cup {c} ELSE st.full,
              seen |-> IF v.some THEN st.seen \cup {c} ELSE st.seen,
              done |-> Len(v.S) = 2 /\ v.S[1][1] = 0 /\ v.S[2][1] = v.S[2][2]]))

\* the cells lo..hi of a ring, in order, until the circle is in shadow
RECURSIVE SweepRange(_, _, _, _, _, _, _)
SweepRange(env, cx, cy, r, lo, hi, st) ==
    IF lo > hi \/ st.done THEN st
    ELSE IF lo = hi THEN SweepCell(env, cx, cy, r, lo, st)
    ELSE Let(SweepRange(env, cx, cy, r, lo, (lo + hi) \div 2, st),
             LAMBDA left : SweepRange(env, cx, cy, r, (lo + hi) \div 2 + 1, hi, left))

\* one side of a ring: its cells that lie in Keys are j = lo..hi of the side
SweepSide(env, cx, cy, r, side, st) ==
    LET fixed == CASE side = 0 -> cx - r >= -1 /\ cx - r <= GridW
                   [] side = 1 -> cy - r >= -1 /\ cy - r <= GridH
                   [] side = 2 -> cx + r >= -1 /\ cx + r <= GridW
                   [] side = 3 -> cy + r >= -1 /\ cy + r <= GridH
        lo == CASE side = 0 -> cy + r - GridH
                [] side = 1 -> -1 - (cx - r)
                [] side = 2 -> -1 - (cy - r)
                [] side = 3 -> cx + r - GridW
        hi == CASE side = 0 -> cy + r + 1
                [] side = 1 -> GridW - (cx - r)
                [] side = 2 -> GridH - (cy - r)
                [] side = 3 -> cx + r + 1
    IN IF ~fixed THEN st
       ELSE SweepRange(env, cx, cy, r, 2 * r * side + Max2(lo, 0),
                       2 * r * side + Min2(hi, 2 * r - 1), st)

\* the rings r..R, each side in turn
RECURSIVE Sweep(_, _, _, _, _, _)
Sweep(env, cx, cy, r, R, st) ==
    IF r > R \/ st.done THEN st
    ELSE Let(SweepSide(env, cx, cy, r, 3,
                SweepSide(env, cx, cy, r, 2,
                    SweepSide(env, cx, cy, r, 1,
                        SweepSide(env, cx, cy, r, 0, st)))),
             LAMBDA ring : Sweep(env, cx, cy, r + 1, R, ring))

\* fov.compute(x, y, R, callback): the cells the callback is called for, and
\* those it is called for with visibility 1
Compute(env, x, y, R) ==
    LET o == [S |-> <<>>, full |-> {<<x, y>>}, seen |-> {<<x, y>>}, done |-> FALSE]
        rings == IF R > SweepCap THEN SweepCap ELSE R
    IN IF ~lightPassesCallback(env, x, y) THEN o
       ELSE Sweep(env, x, y, 1, rings, o)

\* --------------------------------------------------------- image handler
\* new ImageHandler(imagePath): enabled, image not yet read; calls and errs
\* count the invocations of the onReady given with it
NewHandler(m) == [map |-> m, enabled |-> TRUE, st |-> "loading", calls |-> 0, errs |-> 0]

\* a faulty disable: the flag stays set
DisableNothing(h) == h

\* ImageHandler.prototype.disable
Disable(h) == [h EXCEPT !.enabled = FALSE]

\* ------------------------------------------------------------ key2pt memo
\* the point object made for a key through instance inst (1: the instance
\* modelled, 2: another instance of the module) after gen of its initialize calls
MemoPoint(inst, gen) == [by |-> inst, gen |-> gen]

\* key2pt(key) called through instance inst: the cache after the call, the
\* point returned, and whether it came from the cache
key2pt(cache, key, inst, gen) ==
    IF key \in DOMAIN cache
    THEN [cache |-> cache, pt |-> cache[key], hit |-> TRUE]
    ELSE [cache |-> Put(cache, key, MemoPoint(inst, gen)),
          pt |-> MemoPoint(inst, gen), hit |-> FALSE]

\* the cache prime of the load callback: key2pt_cache[pt.key] = pt for every
\* cell of the grid, the other entries left in place
PrimeCache(cache, gen) ==
    [k \in (DOMAIN cache) \cup Cells |->
        IF k \in Cells THEN MemoPoint(1, gen) ELSE cache[k]]

\* ------------------------------------------------------------ operations
NoOp == [op |-> "none", x |-> 0, y |-> 0, r |-> 0, res |-> "none"]
NoPre == [n |-> 0, ts |-> EmptyMap, tw |-> EmptyMap, ts0 |-> EmptyMap, tw0 |-> EmptyMap]
NoProbe == [on |-> 0, x |-> 0, y |-> 0, r |-> 0, before |-> {}, cut |-> {}]

Init ==
    /\ ready = FALSE
    /\ terrain = "undefined"
    /\ gridnav = {}
    /\ ent_fow_blocker_node = {}
    /\ tools_no_wards = {}
    /\ elevationValues = <<>>
    /\ elevationGrid = EmptyMap
    /\ elevationWalls = EmptyMap
    /\ treeWalls = EmptyMap
    /\ tree = <<>>
    /\ tree_elevations = EmptyMap
    /\ tree_blocks = EmptyMap
    /\ tree_relations = EmptyMap
    /\ tree_state = EmptyMap
    /\ lights = {}
    /\ area = Undef
    /\ lightArea = Undef
    /\ elevation = Undef
    /\ radius = DefaultRadius
    /\ handlers = <<>>
    /\ key2pt_cache = EmptyMap
    /\ lastOp = NoOp
    /\ pre = NoPre
    /\ probe = NoProbe

\* VisionSimulation.prototype.initialize, up to the call of imageHandler.load
Initialize(m) ==
    /\ Len(handlers) < MaxInits
    /\ ready' = FALSE
    /\ terrain' = "null"
    /\ gridnav' = {}
    /\ ent_fow_blocker_node' = {}
    /\ tools_no_wards' = {}
    /\ elevationValues' = <<>>
    /\ elevationGrid' = EmptyMap
    /\ elevationWalls' = EmptyMap
    /\ treeWalls' = EmptyMap
    /\ tree' = <<>>
    /\ tree_elevations' = EmptyMap
    /\ tree_blocks' = EmptyMap
    /\ tree_relations' = EmptyMap
    /\ tree_state' = EmptyMap
    /\ lights' = {}
    /\ area' = 0
    /\ UNCHANGED <<lightArea, elevation, radius, key2pt_cache>>
    /\ handlers' = Append(
            [i \in DOMAIN handlers |->
                IF i = Len(handlers) THEN Disable(handlers[i]) ELSE handlers[i]],
            NewHandler(m))
    /\ lastOp' = [NoOp EXCEPT !.op = "initialize"]
    /\ pre' = NoPre
    /\ probe' = NoProbe

\* the forEach over elevationValues that builds this.treeWalls
RECURSIVE BuildTreeWalls(_, _, _, _)
BuildTreeWalls(tw, values, reg, i) ==
    IF i > Len(values) THEN tw
    ELSE BuildTreeWalls(
            Put(tw, values[i],
                setTreeWalls(EmptyMap, values[i], reg.tree, reg.elevations,
                             reg.state, reg.blocks, 1)),
            values, reg, i + 1)

\* the body of "if (!err)" in the callback given to imageHandler.load, reading
\* the image of this.imageHandler
LoadCallback(m) ==
    \E reg \in {ParseTrees(m, 1, [tree |-> tree, elevations |-> tree_elevations,
                                   blocks |-> tree_blocks, state |-> tree_state,
                                   relations |-> tree_relations])} :
    \E values \in {ParseElevationValues(m, 1, elevationValues)} :
       /\ gridnav' = BlackPixels(m, "gridnav")
       /\ ent_fow_blocker_node' = BlackPixels(m, "fow")
       /\ tools_no_wards' = BlackPixels(m, "nowards")
       /\ tree' = reg.tree
       /\ tree_elevations' = reg.elevations
       /\ tree_blocks' = reg.blocks
       /\ tree_state' = reg.state
       /\ tree_relations' = reg.relations
       /\ elevationGrid' = ParseElevationGrid(m)
       /\ elevationValues' = values
       /\ treeWalls' = BuildTreeWalls(treeWalls, values, reg, 1)
       /\ key2pt_cache' = PrimeCache(key2pt_cache, Len(handlers))
       /\ terrain' = "built"
       /\ ready' = TRUE
       /\ UNCHANGED <<elevationWalls, lights, area, lightArea, elevation, radius>>

\* Jimp.read resolves for handler i: the .then of ImageHandler.prototype.load,
\* and its .catch when the callback throws. throws: onReady throws when called
\* without an error.
LoadResolve(i, throws) ==
    /\ i \in DOMAIN handlers
    /\ handlers[i].st = "loading"
    /\ LET h1 == [handlers EXCEPT ![i].st = "loaded"]
           cur == Len(handlers)
       IN IF ~handlers[i].enabled
          THEN /\ handlers' = h1
               /\ lastOp' = [NoOp EXCEPT !.op = "load", !.x = i, !.res = "discarded"]
               /\ UNCHANGED <<instVars, key2pt_cache>>
          ELSE IF h1[cur].st # "loaded"
          THEN \* this.image.scan on an image not read: the callback throws, .catch reports
               /\ handlers' = [h1 EXCEPT ![i].calls = @ + 1, ![i].errs = @ + 1]
               /\ lastOp' = [NoOp EXCEPT !.op = "load", !.x = i, !.res = "error"]
               /\ UNCHANGED <<instVars, key2pt_cache>>
          ELSE /\ LoadCallback(h1[cur].map)
               /\ handlers' = IF throws
                              THEN [h1 EXCEPT ![i].calls = @ + 2, ![i].errs = @ + 1]
                              ELSE [h1 EXCEPT ![i].calls = @ + 1]
               /\ lastOp' = [NoOp EXCEPT !.op = "load", !.x = i,
                                         !.res = IF throws THEN "error" ELSE "ok"]
    /\ pre' = NoPre
    /\ probe' = NoProbe

\* Jimp.read rejects for handler i: the .catch of ImageHandler.prototype.load
LoadReject(i) ==
    /\ i \in DOMAIN handlers
    /\ handlers[i].st = "loading"
    /\ IF handlers[i].enabled
       THEN /\ handlers' = [handlers EXCEPT ![i].st = "failed", ![i].calls = @ + 1,
                                            ![i].errs = @ + 1]
            /\ lastOp' = [NoOp EXCEPT !.op = "load", !.x = i, !.res = "error"]
       ELSE /\ handlers' = [handlers EXCEPT ![i].st = "failed"]
            /\ lastOp' = [NoOp EXCEPT !.op = "load", !.x = i, !.res = "discarded"]
    /\ UNCHANGED <<instVars, key2pt_cache>>
    /\ pre' = NoPre
    /\ probe' = NoProbe

\* ------------------------------------------------------ tree state manager
\* a faulty lookup: a key without trees finds the trees of the next column
TreePtsNextColumn(rel, x, y) ==
    IF xy2key(x, y) \in DOMAIN rel THEN rel[xy2key(x, y)]
    ELSE IF xy2key(x + 1, y) \in DOMAIN rel THEN rel[xy2key(x + 1, y)]
    ELSE <<>>

\* this.tree_relations[key], the origins of the trees a corner belongs to
TreePtsAt(rel, x, y) ==
    IF xy2key(x, y) \in DOMAIN rel THEN rel[xy2key(x, y)] ELSE <<>>

\* a faulty flip: the tree is cut whatever its state
FlipStateCut(ts, pt) == [ts EXCEPT ![pt] = FALSE]

\* this.tree_state[pt.key] = !this.tree_state[pt.key]
FlipState(ts, pt) == [ts EXCEPT ![pt] = ~ts[pt]]

\* a faulty splice loop: every descriptor at the 4 corners is removed, whatever
\* the tree it names
RemoveDescriptorsAll(w, blocks, pt, k) ==
    [w |-> [c \in DOMAIN w |-> IF c \in Range(blocks) THEN <<>> ELSE w[c]],
     err |-> FALSE]

\* the splice loop over the 4 corners of pt in treeWalls[elevation]; reading
\* .length of a missing entry throws and leaves the corners before it patched
RECURSIVE RemoveDescriptors(_, _, _, _)
RemoveDescriptors(w, blocks, pt, k) ==
    IF k > Len(blocks) THEN [w |-> w, err |-> FALSE]
    ELSE IF blocks[k] \notin DOMAIN w THEN [w |-> w, err |-> TRUE]
    ELSE RemoveDescriptors(
            [w EXCEPT ![blocks[k]] = SelectSeq(@, LAMBDA d : d # pt)],
            blocks, pt, k + 1)

\* a faulty patch: the descriptors of pt are not removed first
PatchLevelKeep(w, blocks, pt, standing) ==
    [w |-> IF standing THEN AddDescriptors(w, blocks, pt) ELSE w, err |-> FALSE]

\* the patch of treeWalls[elevation] for the toggled tree pt
PatchLevel(w, blocks, pt, standing) ==
    LET rm == RemoveDescriptors(w, blocks, pt, 1)
    IN IF rm.err THEN rm
       ELSE [w |-> IF standing THEN AddDescriptors(rm.w, blocks, pt) ELSE rm.w,
             err |-> FALSE]

\* this.elevationValues.forEach(...) for the toggled tree pt
RECURSIVE PatchLevels(_, _, _, _, _, _, _)
PatchLevels(tw, values, elevs, blocks, pt, standing, i) ==
    IF i > Len(values) THEN [tw |-> tw, err |-> FALSE]
    ELSE IF values[i] < elevs[pt]
    THEN LET p == PatchLevel(tw[values[i]], blocks[pt], pt, standing)
             tw2 == [tw EXCEPT ![values[i]] = p.w]
         IN IF p.err THEN [tw |-> tw2, err |-> TRUE]
            ELSE PatchLevels(tw2, values, elevs, blocks, pt, standing, i + 1)
    ELSE PatchLevels(tw, values, elevs, blocks, pt, standing, i + 1)

\* a faulty loop: only the first tree of treePts is toggled
ToggleFirst(treePts, i, ts, tw) ==
    IF Len(treePts) = 0 THEN [ts |-> ts, tw |-> tw, err |-> FALSE]
    ELSE LET pt == treePts[1]
             ts2 == FlipState(ts, pt)
             p == PatchLevels(tw, elevationValues, tree_elevations, tree_blocks,
                              pt, ts2[pt], 1)
         IN [ts |-> ts2, tw |-> p.tw, err |-> p.err]

\* the loop over treePts
RECURSIVE ToggleLoop(_, _, _, _)
ToggleLoop(treePts, i, ts, tw) ==
    IF i > Len(treePts) THEN [ts |-> ts, tw |-> tw, err |-> FALSE]
    ELSE LET pt == treePts[i]
             ts2 == FlipState(ts, pt)
             p == PatchLevels(tw, elevationValues, tree_elevations, tree_blocks,
                              pt, ts2[pt], 1)
         IN IF p.err THEN [ts |-> ts2, tw |-> p.tw, err |-> TRUE]
            ELSE ToggleLoop(treePts, i + 1, ts2, p.tw)

\* VisionSimulation.prototype.toggleTree(x, y)
ToggleTree(x, y) ==
    /\ IF terrain = "undefined"
       THEN \* this.tree_relations is undefined
            /\ lastOp' = [op |-> "toggleTree", x |-> x, y |-> y, r |-> 0, res |-> "TypeError"]
            /\ pre' = NoPre
            /\ probe' = NoProbe
            /\ UNCHANGED <<tree_state, treeWalls>>
       ELSE \E treePts \in {TreePtsAt(tree_relations, x, y)} :
            \E isTree \in {Len(treePts) > 0} :
            \E t \in {ToggleLoop(treePts, 1, tree_state, treeWalls)} :
               /\ tree_state' = t.ts
               /\ treeWalls' = t.tw
               /\ lastOp' = [op |-> "toggleTree", x |-> x, y |-> y, r |-> 0,
                             res |-> IF t.err THEN "TypeError"
                                     ELSE IF isTree THEN "true" ELSE "false"]
               /\ pre' = IF /\ lastOp.op = "toggleTree" /\ pre.n >= 1
                                 /\ lastOp.x = x /\ lastOp.y = y
                         THEN [n |-> 2, ts |-> tree_state, tw |-> treeWalls,
                               ts0 |-> pre.ts, tw0 |-> pre.tw]
                         ELSE [n |-> 1, ts |-> tree_state, tw |-> treeWalls,
                               ts0 |-> EmptyMap, tw0 |-> EmptyMap]
               /\ probe' = IF /\ isTree /\ ~t.err
                              /\ lastOp.op = "updateVisibility" /\ lastOp.res = "ok"
                           THEN [on |-> 1, x |-> lastOp.x, y |-> lastOp.y, r |-> lastOp.r,
                                 before |-> lights,
                                 cut |-> {o \in DOMAIN tree_state :
                                             tree_state[o] /\ ~t.ts[o]}]
                           ELSE NoProbe
    /\ UNCHANGED <<ready, terrain, gridnav, ent_fow_blocker_node, tools_no_wards,
                   elevationValues, elevationGrid, elevationWalls, tree,
                   tree_elevations, tree_blocks, tree_relations,
                   lights, area, lightArea, elevation, radius, handlers, key2pt_cache>>

\* ------------------------------------------------------ visibility engine
\* a faulty read: a key the grid does not have reads as ground level
ElevationAtOrZero(grid, key) == IF key \in DOMAIN grid THEN grid[key] ELSE 0

\* a faulty read: the elevation is read in the bottom row of the origin's column
ElevationAtFirstRow(grid, key) ==
    IF key \in DOMAIN grid THEN grid[<<key[1], 0>>] ELSE Undef

\* this.elevationGrid[key].z; Undef when the grid has no entry for key
\* (reading .z of undefined throws)
ElevationAt(grid, key) == IF key \in DOMAIN grid THEN grid[key] ELSE Undef

\* a faulty post-filter: a cell lit by the query before stays lit when seen
LightCallbackKeep(key, vis, e) ==
    /\ key \in DOMAIN elevationGrid
    /\ LET treePts == TreePtsAt(tree_relations, key[1], key[2])
           treeBlocking == \E i \in DOMAIN treePts :
                              /\ tree_state[treePts[i]]
                              /\ tree_elevations[treePts[i]] > e
       IN \/ vis = 1 /\ key \notin ent_fow_blocker_node /\ ~treeBlocking
          \/ key \in lights

\* a faulty post-filter: only the first tree registered at the corner is asked
LightCallbackFirstTree(key, vis, e) ==
    /\ key \in DOMAIN elevationGrid
    /\ LET treePts == TreePtsAt(tree_relations, key[1], key[2])
           treeBlocking == /\ Len(treePts) > 0
                           /\ tree_state[treePts[1]]
                           /\ tree_elevations[treePts[1]] > e
       IN vis = 1 /\ key \notin ent_fow_blocker_node /\ ~treeBlocking

\* the post-filter of the compute callback: is key lit when seen with visibility vis
\* (1: wholly visible, 0: partly)
LightCallback(key, vis, e) ==
    /\ key \in DOMAIN elevationGrid
    /\ LET treePts == TreePtsAt(tree_relations, key[1], key[2])
           treeBlocking == \E i \in DOMAIN treePts :
                              /\ tree_state[treePts[i]]
                              /\ tree_elevations[treePts[i]] > e
                              /\ \A j \in 1..(i - 1) :
                                    ~(tree_state[treePts[j]] /\ tree_elevations[treePts[j]] > e)
       IN vis = 1 /\ key \notin ent_fow_blocker_node /\ ~treeBlocking

\* radius = radius || self.radius
EffectiveRadius(r) == IF r = Undef \/ r = 0 THEN radius ELSE r

\* a faulty order of the statements: lights is emptied before the elevation of
\* the origin is read
QueryThrowsLightsCleared(gX, gY, r) ==
    /\ lastOp' = [op |-> "updateVisibility", x |-> gX, y |-> gY, r |-> r,
                  res |-> "TypeError"]
    /\ pre' = NoPre
    /\ probe' = NoProbe
    /\ lights' = {}
    /\ UNCHANGED <<ready, terrain, gridnav, ent_fow_blocker_node, tools_no_wards,
                   elevationValues, elevationGrid, elevationWalls, treeWalls,
                   tree, tree_elevations, tree_blocks, tree_relations, tree_state,
                   area, lightArea, elevation, radius, handlers, key2pt_cache>>

\* updateVisibility for an origin without an elevation entry: reading .z of
\* undefined throws, before anything of the instance is written
QueryThrows(gX, gY, r) ==
    /\ lastOp' = [op |-> "updateVisibility", x |-> gX, y |-> gY, r |-> r,
                  res |-> "TypeError"]
    /\ pre' = NoPre
    /\ probe' = NoProbe
    /\ UNCHANGED <<instVars, handlers, key2pt_cache>>

\* VisionSimulation.prototype.updateVisibility(gX, gY, radius)
UpdateVisibility(gX, gY, r) ==
    \E z \in {IF terrain = "built" THEN ElevationAt(elevationGrid, xy2key(gX, gY))
              ELSE Undef} :
       IF z = Undef
       THEN QueryThrows(gX, gY, r)
       ELSE \E ew \in {IF z \in DOMAIN elevationWalls THEN elevationWalls
                       ELSE Put(elevationWalls, z, generateElevationWalls(elevationGrid, z))} :
            \E f \in {Compute([elevation |-> z, elevationWalls |-> ew,
                               fow |-> ent_fow_blocker_node, treeWalls |-> treeWalls,
                               gridnav |-> gridnav, tools_no_wards |-> tools_no_wards],
                              gX, gY, EffectiveRadius(r))} :
            \E lit \in {{c \in f.seen :
                            LightCallback(c, IF c \in f.full THEN 1 ELSE 0, z)}} :
               /\ elevation' = z
               /\ elevationWalls' = ew
               /\ lights' = lit
               /\ area' = Cardinality(f.seen)
               /\ lightArea' = Cardinality(lit)
               /\ lastOp' = [op |-> "updateVisibility", x |-> gX, y |-> gY, r |-> r,
                             res |-> "ok"]
               /\ pre' = NoPre
               /\ probe' = IF /\ probe.on = 1 /\ lastOp.op = "toggleTree"
                              /\ probe.x = gX /\ probe.y = gY /\ probe.r = r
                           THEN [probe EXCEPT !.on = 2]
                           ELSE NoProbe
               /\ UNCHANGED <<ready, terrain, gridnav, ent_fow_blocker_node,
                              tools_no_wards, elevationValues, elevationGrid, treeWalls,
                              tree, tree_elevations, tree_blocks, tree_relations,
                              tree_state, radius, handlers, key2pt_cache>>

\* VisionSimulation.prototype.setRadius(r)
SetRadius(r) ==
    /\ radius' = r
    /\ lastOp' = [NoOp EXCEPT !.op = "setRadius", !.r = r]
    /\ pre' = NoPre
    /\ probe' = NoProbe
    /\ UNCHANGED <<ready, terrain, gridnav, ent_fow_blocker_node, tools_no_wards,
                   elevationValues, elevationGrid, elevationWalls, treeWalls,
                   tree, tree_elevations, tree_blocks, tree_relations, tree_state,
                   lights, area, lightArea, elevation, handlers, key2pt_cache>>

\* --------------------------------------------------------- validity query
\* a check flag of isValidXY: true, false, or omitted (undefined)
FlagArgs == {"true", "false", "omitted"}
Truthy(f) == f = "true"

\* a faulty isValidXY: the tree check asks the first tree at the corner only
isValidXYFirstTree(x, y, bCheckGridnav, bCheckToolsNoWards, bCheckTreeState) ==
    IF ~ready THEN FALSE
    ELSE LET key == xy2key(x, y)
             treePts == TreePtsAt(tree_relations, x, y)
             treeBlocking == /\ Truthy(bCheckTreeState)
                             /\ Len(treePts) > 0
                             /\ tree_state[treePts[1]]
         IN /\ x >= 0 /\ x < GridW /\ y >= 0 /\ y < GridH
            /\ (~Truthy(bCheckGridnav) \/ key \notin gridnav)
            /\ (~Truthy(bCheckToolsNoWards) \/ key \notin tools_no_wards)
            /\ (~Truthy(bCheckTreeState) \/ ~treeBlocking)

\* VisionSimulation.prototype.isValidXY: the value returned
isValidXY(x, y, bCheckGridnav, bCheckToolsNoWards, bCheckTreeState) ==
    IF ~ready THEN FALSE
    ELSE LET key == xy2key(x, y)
             treePts == TreePtsAt(tree_relations, x, y)
             treeBlocking == /\ Truthy(bCheckTreeState)
                             /\ \E i \in DOMAIN treePts : tree_state[treePts[i]]
         IN /\ x >= 0 /\ x < GridW /\ y >= 0 /\ y < GridH
            /\ (~Truthy(bCheckGridnav) \/ key \notin gridnav)
            /\ (~Truthy(bCheckToolsNoWards) \/ key \notin tools_no_wards)
            /\ (~Truthy(bCheckTreeState) \/ ~treeBlocking)

\* a call of isValidXY: nothing of the instance changes
IsValidXY(x, y, g, n, t) ==
    /\ lastOp' = [op |-> "isValidXY", x |-> x, y |-> y, r |-> 0,
                  res |-> IF isValidXY(x, y, g, n, t) THEN "true" ELSE "false",
                  flags |-> <<g, n, t>>]
    /\ pre' = NoPre
    /\ probe' = NoProbe
    /\ UNCHANGED <<instVars, handlers, key2pt_cache>>

\* the coordinate conversions there and back, from the grid cell (x, y)
Convert(x, y) ==
    /\ lastOp' = [op |-> "convert", x |-> x, y |-> y, r |-> 0, res |-> "ok",
                  image |-> LET p == ImageXYtoGridXY(x, y)
                            IN GridXYtoImageXY(p[1], p[2]),
                  world |-> LET w == GridXYtoWorldXY(x, y)
                            IN WorldXYtoGridXY(w[1], w[2])]
    /\ pre' = NoPre
    /\ probe' = NoProbe
    /\ UNCHANGED <<instVars, handlers, key2pt_cache>>

\* a call of key2pt(key) through instance inst; the other instance is never
\* initialized
Key2pt(inst, key) ==
    \E m \in {key2pt(key2pt_cache, key, inst, IF inst = 1 THEN Len(handlers) ELSE 0)} :
       /\ key2pt_cache' = m.cache
       /\ lastOp' = [op |-> "key2pt", x |-> key[1], y |-> key[2], r |-> 0,
                     res |-> IF m.hit THEN "hit" ELSE "miss",
                     inst |-> inst, pt |-> m.pt]
       /\ pre' = NoPre
       /\ probe' = NoProbe
       /\ UNCHANGED <<instVars, handlers>>

\* ------------------------------------------------------------------ inputs
\* the origins queried: two corners of the grid, and one cell outside it
Origins == {<<0, GridH - 1>>, <<GridW - 1, 0>>, <<GridW, 0>>}

\* the radius argument: omitted, or a number
RadiusArgs == {Undef} \cup 1..MaxRadius

\* the keys toggled: the top row of the grid, and two keys outside the grid
ToggleKeys == {<<x, GridH - 1>> : x \in 0..(GridW - 1)} \cup {<<-1, 0>>, <<GridW, GridH>>}

Queries ==
    \/ \E k \in ToggleKeys : ToggleTree(k[1], k[2])
    \/ \E o \in Origins, r \in RadiusArgs : UpdateVisibility(o[1], o[2], r)

\* the instance is initialized once and then queried
InitializeOnce(m) == handlers = <<>> /\ Initialize(m)

Next ==
    \/ \E m \in MapNames : InitializeOnce(m)
    \/ \E throws \in BOOLEAN : LoadResolve(1, throws)
    \/ LoadReject(1)
    \/ Queries

Spec == Init /\ [][Next]_vars

\* initialize is called again and again, with loads outstanding, and the
\* instance is queried in between
AsyncMaps == {"trees", "field"}
AsyncKeys == {<<0, 0>>, <<GridW - 1, GridH - 1>>}

NextAsync ==
    \/ \E m \in AsyncMaps : Initialize(m)
    \/ \E i \in 1..MaxInits, throws \in BOOLEAN : LoadResolve(i, throws)
    \/ \E i \in 1..MaxInits : LoadReject(i)
    \/ \E k \in AsyncKeys : ToggleTree(k[1], k[2])
    \/ UpdateVisibility(0, 0, Undef)
    \/ SetRadius(MaxRadius)

SpecAsync == Init /\ [][NextAsync]_vars

\* the instance is initialized once, on open, ridged or wooded ground, and
\* queried with every kind of radius argument, 0 included
VisMaps == {"flat", "ridge", "trees", "blocks"}
VisOrigins == {<<0, GridH - 1>>, <<1, GridH - 2>>}
VisRadii == {Undef} \cup 0..MaxRadius
VisToggleKeys == {<<1, GridH - 1>>, <<3, GridH - 1>>}

NextVis ==
    \/ \E m \in VisMaps : InitializeOnce(m)
    \/ \E throws \in BOOLEAN : LoadResolve(1, throws)
    \/ LoadReject(1)
    \/ \E k \in VisToggleKeys : ToggleTree(k[1], k[2])
    \/ \E o \in VisOrigins, r \in VisRadii : UpdateVisibility(o[1], o[2], r)

SpecVis == Init /\ [][NextVis]_vars

\* the instance is initialized once on wooded ground, trees are toggled, and
\* cells are asked for their validity and converted between coordinates
QueryMaps == {"trees", "blocks"}
QueryToggleKeys == {<<1, GridH - 1>>, <<3, GridH - 1>>}
QueryKeys == {<<0, GridH - 1>>, <<1, GridH - 1>>, <<2, GridH - 1>>, <<1, 0>>,
              <<-1, 0>>, <<GridW, GridH - 1>>}

NextQuery ==
    \/ \E m \in QueryMaps : InitializeOnce(m)
    \/ \E throws \in BOOLEAN : LoadResolve(1, throws)
    \/ LoadReject(1)
    \/ \E k \in QueryToggleKeys : ToggleTree(k[1], k[2])
    \/ \E k \in QueryKeys, g, n, t \in FlagArgs : IsValidXY(k[1], k[2], g, n, t)
    \/ \E c \in Cells : Convert(c[1], c[2])

SpecQuery == Init /\ [][NextQuery]_vars

\* two instances of the module call key2pt, one of them initialized again and
\* again, for a cell of the grid and for a key outside it
MemoMaps == {"field", "flat"}
MemoInstances == {1, 2}
MemoKeys == {<<0, 0>>, <<GridW, 0>>}

NextMemo ==
    \/ \E m \in MemoMaps : Initialize(m)
    \/ \E i \in 1..MaxInits, throws \in BOOLEAN : LoadResolve(i, throws)
    \/ \E i \in 1..MaxInits : LoadReject(i)
    \/ \E inst \in MemoInstances, k \in MemoKeys : Key2pt(inst, k)

SpecMemo == Init /\ [][NextMemo]_vars

\* ------------------------------------------------------------- properties
\* the known elevation levels
Levels == Range(elevationValues)

\* the descriptors listed for corner c at level L of the wall sets tw
DescriptorsAt(tw, L, c) ==
    IF L \in DOMAIN tw /\ c \in DOMAIN tw[L] THEN tw[L][c] ELSE <<>>

\* the 4 footprint corners of the tree of origin o
Footprint(o) == Range(tree_blocks[o])

\* the trees a key belongs to the footprint of
TreesAt(c) == {o \in Range(tree) : c \in Footprint(o)}

\* the standing trees that block level L and have corner c
StandingAbove(L, c) ==
    {o \in TreesAt(c) : tree_state[o] /\ tree_elevations[o] > L}

Abs(n) == IF n < 0 THEN 0 - n ELSE n

\* the number of the ring of cell b around cell a
RingDistance(a, b) == Max2(Abs(a[1] - b[1]), Abs(a[2] - b[2]))

\* C1: once initialize has succeeded, after any toggleTree and updateVisibility
\* calls, for every known elevation level L and every cell key c the descriptors
\* of the tree wall set of L at c are, without duplicates, exactly the standing
\* trees whose blocking elevation exceeds L and that have c as a footprint corner.
C1_TreeWallsMatchRegistry ==
    ready =>
        /\ DOMAIN treeWalls = Levels
        /\ \A L \in Levels : \A c \in Keys :
              /\ NoDup(DescriptorsAt(treeWalls, L, c))
              /\ Range(DescriptorsAt(treeWalls, L, c)) = StandingAbove(L, c)

\* C1 happens: after a toggle and a query, a corner shared by a cut and a
\* standing tree lists the standing one only, and another corner is emptied
C1_Witness ==
    /\ ready
    /\ lastOp.op = "updateVisibility" /\ lastOp.res = "ok"
    /\ \E L \in Levels : \E c, d \in Keys :
          /\ \E o, q \in TreesAt(c) :
                /\ ~tree_state[o] /\ tree_elevations[o] > L
                /\ tree_state[q] /\ tree_elevations[q] > L
          /\ Len(DescriptorsAt(treeWalls, L, c)) = 1
          /\ L \in DOMAIN treeWalls /\ d \in DOMAIN treeWalls[L]
          /\ Len(treeWalls[L][d]) = 0

\* C2: toggleTree(x, y) called twice in a row leaves every tree's standing
\* flag, and at every elevation level the set of descriptors at every corner,
\* as they were before the first of the two calls.
C2_DoubleToggleRestores ==
    pre.n = 2 =>
        /\ tree_state = pre.ts0
        /\ \A L \in Levels : \A c \in Keys :
              Range(DescriptorsAt(treeWalls, L, c)) = Range(DescriptorsAt(pre.tw0, L, c))

\* C2 happens: the second of two toggles of a corner of a tree, the state in
\* between differing from the one restored
C2_Witness ==
    /\ ready /\ pre.n = 2
    /\ lastOp.op = "toggleTree" /\ lastOp.res = "true"
    /\ pre.ts # tree_state
    /\ pre.tw # treeWalls

\* nothing obstructs a view from level e: no cell is higher, no cell is a
\* field-of-view blocker, no standing tree blocks it
NoObstruction(e) ==
    /\ \A k \in DOMAIN elevationGrid : elevationGrid[k] <= e
    /\ ent_fow_blocker_node = {}
    /\ \A o \in Range(tree) : tree_state[o] => tree_elevations[o] <= e

\* the tree of origin o stands between the observer obs and the target t
TreeBetween(obs, o, t) ==
    /\ obs \notin Footprint(o) /\ t \notin Footprint(o)
    /\ \E c \in Footprint(o) : RingDistance(obs, c) < RingDistance(obs, t)

\* a cell of the grid that was unlit before a toggle cut a tree, blocking the
\* observer's level, between the observer of probe and it, nothing else
\* obstructing the view after the cut
Uncovered(t) ==
    LET obs == <<probe.x, probe.y>>
    IN /\ t \in DOMAIN elevationGrid
       /\ t \notin probe.before
       /\ RingDistance(obs, t) <= EffectiveRadius(probe.r)
       /\ \E o \in probe.cut : tree_elevations[o] > elevation /\ TreeBetween(obs, o, t)
       /\ NoObstruction(elevation)

C8_OriginOutsideFails ==
    (/\ ready
     /\ lastOp.op = "updateVisibility"
     /\ xy2key(lastOp.x, lastOp.y) \notin DOMAIN elevationGrid)
    => lastOp.res = "TypeError"

\* C8 happens: a ready instance queried from outside the grid has thrown,
\* the lights of the query before it left as they were
C8_Witness ==
    /\ ready
    /\ lastOp.op = "updateVisibility" /\ lastOp.res = "TypeError"
    /\ xy2key(lastOp.x, lastOp.y) \notin Cells
    /\ lights # {}

\* C9: on a ready instance toggleTree(x, y), no tree footprint including (x, y),
\* inside the grid or outside, returns false and leaves every standing flag and
\* every tree wall set as it was.
C9_NoTreeNoChange ==
    (/\ ready
     /\ lastOp.op = "toggleTree"
     /\ TreesAt(xy2key(lastOp.x, lastOp.y)) = {})
    => /\ lastOp.res = "false"
       /\ tree_state = pre.ts
       /\ treeWalls = pre.tw

\* C9 happens: a key outside the grid, and a cell of the grid next to a tree,
\* toggled on a map with trees, some of them cut before
C9_Witness ==
    /\ ready
    /\ lastOp.op = "toggleTree" /\ lastOp.res = "false"
    /\ \/ xy2key(lastOp.x, lastOp.y) \notin Cells
       \/ TreesAt(xy2key(lastOp.x + 1, lastOp.y)) # {}
    /\ \E o \in Range(tree) : ~tree_state[o]

\* C10: toggleTree(x, y), (x, y) in the footprint of at least one tree, returns
\* true and inverts the standing flag of each tree whose footprint includes
\* (x, y), whatever the flags of the others sharing the corner, and of no other
\* tree.
C10_TogglesTreesOfCorner ==
    (/\ ready
     /\ lastOp.op = "toggleTree"
     /\ TreesAt(xy2key(lastOp.x, lastOp.y)) # {})
    => /\ lastOp.res = "true"
       /\ DOMAIN tree_state = DOMAIN pre.ts
       /\ \A o \in Range(tree) :
             tree_state[o] = IF xy2key(lastOp.x, lastOp.y) \in Footprint(o)
                             THEN ~pre.ts[o] ELSE pre.ts[o]

\* C10 happens: a corner shared by two trees in different states is toggled,
\* a third tree standing apart
C10_Witness ==
    /\ ready
    /\ lastOp.op = "toggleTree" /\ lastOp.res = "true"
    /\ \E o, q \in TreesAt(xy2key(lastOp.x, lastOp.y)) : pre.ts[o] /\ ~pre.ts[q]
    /\ Range(tree) \ TreesAt(xy2key(lastOp.x, lastOp.y)) # {}

\* the tree registry read from the image of map m by a fresh instance
FreshTrees(m) ==
    ParseTrees(m, 1, [tree |-> <<>>, elevations |-> EmptyMap, blocks |-> EmptyMap,
                      state |-> EmptyMap, relations |-> EmptyMap])

\* the last step was the completion of a load that a newer initialize had
\* left outstanding
StaleCompletion == lastOp.op = "load" /\ lastOp.x < Len(handlers)

\* C4: the completion of a load left outstanding by a newer initialize is
\* discarded in every interleaving of the completions: it builds no terrain
\* data and does not make the instance ready, and the terrain data of a ready
\* instance is that of the image of the newest initialize.
C4_StaleLoadDiscarded ==
    /\ StaleCompletion =>
          /\ lastOp.res = "discarded"
          /\ handlers[lastOp.x].calls = 0
    /\ ready =>
          /\ handlers[Len(handlers)].st = "loaded"
          /\ elevationGrid = ParseElevationGrid(handlers[Len(handlers)].map)
          /\ tree_relations = FreshTrees(handlers[Len(handlers)].map).relations
          /\ tree = FreshTrees(handlers[Len(handlers)].map).tree

\* C4 happens: the older load completes after the newer one, whose image
\* differs, has made the instance ready
C4_Witness ==
    /\ StaleCompletion
    /\ lastOp.res = "discarded"
    /\ handlers[lastOp.x].st = "loaded"
    /\ handlers[lastOp.x].map # handlers[Len(handlers)].map
    /\ ready

\* C5: every initialize whose load has completed or failed has had its onReady
\* invoked exactly once.
C5_OnReadyExactlyOnce ==
    \A i \in DOMAIN handlers : handlers[i].st # "loading" => handlers[i].calls = 1

\* C6: an initialize that has reported an error to onReady leaves the instance
\* not ready and lights empty, and a ready instance has all its terrain data.
C6_ErrorLeavesNotReady ==
    /\ (handlers # <<>> /\ handlers[Len(handlers)].errs > 0) => (~ready /\ lights = {})
    /\ ready => (terrain = "built" /\ DOMAIN treeWalls = Levels)

\* C7: updateVisibility and toggleTree called on an instance that is not ready
\* fail with an exception.
C7_NotReadyFailsFast ==
    (lastOp.op \in {"updateVisibility", "toggleTree"} /\ ~ready)
    => lastOp.res = "TypeError"

\* the last call was an updateVisibility that returned
Queried == lastOp.op = "updateVisibility" /\ lastOp.res = "ok"

\* C11: right after updateVisibility has returned with active elevation E, no
\* cell of lights is a field-of-view blocker, none is a footprint corner of a
\* standing tree whose blocking elevation exceeds E, whichever of the trees
\* sharing the corner it is, and every cell of lights is a cell of the grid.
C11_LightsFiltered ==
    Queried =>
        \A c \in lights :
            /\ c \notin ent_fow_blocker_node
            /\ StandingAbove(elevation, c) = {}
            /\ c \in Cells

\* C11 happens: the query has lit cells and seen none at a corner shared by a
\* cut tree, registered first, and a standing tree blocking the observer's level
C11_Witness ==
    /\ Queried /\ lights # {}
    /\ \E c \in Cells :
          /\ Len(TreePtsAt(tree_relations, c[1], c[2])) >= 2
          /\ ~tree_state[TreePtsAt(tree_relations, c[1], c[2])[1]]
          /\ StandingAbove(elevation, c) # {}
          /\ RingDistance(<<lastOp.x, lastOp.y>>, c) <= EffectiveRadius(lastOp.r)
          /\ c \notin lights

\* the cells of the grid higher than level e with a neighbour in the grid
\* that is not
ElevationWallSet(e) ==
    {c \in Cells :
        /\ elevationGrid[c] > e
        /\ \E n \in Cells :
              n # c /\ RingDistance(c, n) = 1 /\ elevationGrid[n] <= e}

\* what lightPassesCallback reads of the instance
CurrentEnv ==
    [elevation |-> elevation, elevationWalls |-> elevationWalls,
     fow |-> ent_fow_blocker_node, treeWalls |-> treeWalls,
     gridnav |-> gridnav, tools_no_wards |-> tools_no_wards]

\* C20: for an updateVisibility at active elevation E, the elevation of the
\* origin cell of this call, a cell blocks light exactly if it is in the
\* elevation wall set of E, or a standing tree blocking E has it as a corner (an
\* emptied tree wall entry does not block), or it is a field-of-view blocker.
C20_OpacityOfActiveElevation ==
    Queried =>
        /\ elevation = elevationGrid[xy2key(lastOp.x, lastOp.y)]
        /\ \A c \in Keys :
              ~lightPassesCallback(CurrentEnv, c[1], c[2])
              <=> \/ c \in ElevationWallSet(elevation)
                  \/ StandingAbove(elevation, c) # {}
                  \/ c \in ent_fow_blocker_node

\* C20 happens: a query from a level other than that of the query before it,
\* on a map with elevation walls, a blocker, and a tree wall entry emptied by a cut
C20_Witness ==
    /\ Queried
    /\ DOMAIN elevationWalls # {elevation}
    /\ ElevationWallSet(elevation) # {}
    /\ ent_fow_blocker_node # {}
    /\ \E c \in Keys :
          /\ c \in DOMAIN treeWalls[elevation]
          /\ Len(treeWalls[elevation][c]) = 0
          /\ lightPassesCallback(CurrentEnv, c[1], c[2])

\* the origin of the last call
LastOrigin == xy2key(lastOp.x, lastOp.y)

\* what lightPassesCallback reads of an instance that never queried before and
\* whose tree walls are built anew from the tree registry as it stands: the
\* obstruction state at level z
FreshEnv(z) ==
    [elevation |-> z,
     elevationWalls |-> Put(EmptyMap, z, generateElevationWalls(elevationGrid, z)),
     fow |-> ent_fow_blocker_node,
     treeWalls |-> BuildTreeWalls(EmptyMap, elevationValues,
                                  [tree |-> tree, elevations |-> tree_elevations,
                                   blocks |-> tree_blocks, state |-> tree_state,
                                   relations |-> tree_relations], 1),
     gridnav |-> gridnav, tools_no_wards |-> tools_no_wards]

\* the cells a field of view f lights at level z: those wholly visible that
\* are cells of the grid, no field-of-view blocker and no corner of a standing
\* tree blocking z
LitOf(f, z) ==
    {c \in f.full \cap Cells :
        c \notin ent_fow_blocker_node /\ StandingAbove(z, c) = {}}

\* the lights of the terrain and tree states as they are, seen from the grid
\* cell o within R rings
RefLights(o, R) ==
    LitOf(Compute(FreshEnv(elevationGrid[o]), o[1], o[2], R), elevationGrid[o])

\* C12: the lights and lightArea that updateVisibility(gX, gY, R) leaves are
\* those of the terrain, the standing flags, the origin and the radius alone:
\* nothing of the query before is kept, a cell it had lit is lit only if this
\* query lights it.
C12_QueryReplacesLights ==
    Queried =>
        /\ lights = RefLights(LastOrigin, EffectiveRadius(lastOp.r))
        /\ lightArea = Cardinality(lights)

\* C12 happens: the same query before and after a toggle that lets a tree
\* stand again, cells lit by the first no longer lit by the second
C12_Witness ==
    /\ Queried /\ probe.on = 2
    /\ lights # {}
    /\ probe.before \ lights # {}

\* the field of view, and the lights, of the last query had the instance held
\* G as its gridnav and its no-wards cells
ViewWith(G) ==
    \E f \in {Compute([CurrentEnv EXCEPT !.gridnav = G, !.tools_no_wards = G],
                      lastOp.x, lastOp.y, EffectiveRadius(lastOp.r))} :
        /\ lights = {c \in f.seen : LightCallback(c, IF c \in f.full THEN 1 ELSE 0, elevation)}
        /\ area = Cardinality(f.seen)

\* C13: gridnav and no-wards cells never influence visibility: the lights,
\* lightArea and area of a query are those of an instance with the same
\* terrain and toggles and no such cell, and of one where every cell is one.
C13_GridnavNoWardsIgnored ==
    Queried => (ViewWith({}) /\ ViewWith(Cells) /\ lightArea = Cardinality(lights))

\* C13 happens: a query has lit a cell that cannot be walked and a cell where
\* no ward can be placed
C13_Witness ==
    /\ Queried
    /\ gridnav \cap lights # {}
    /\ tools_no_wards \cap lights # {}

\* the radius the caller of the last query asked for: the argument when one
\* was given, the default of the instance when it was omitted
RequestedRadius == IF lastOp.r = Undef THEN radius ELSE lastOp.r

\* flat ground without trees or blockers
OpenField ==
    /\ \A c, d \in Cells : elevationGrid[c] = elevationGrid[d]
    /\ tree = <<>>
    /\ ent_fow_blocker_node = {}

\* the cells of the grid within R rings of o
Square(o, R) == {c \in Cells : RingDistance(o, c) <= R}

\* the square of R rings around o lies inside the grid
Unclipped(o, R) ==
    /\ o[1] - R >= 0 /\ o[1] + R <= GridW - 1
    /\ o[2] - R >= 0 /\ o[2] + R <= GridH - 1

\* C14: on a flat grid without trees or blockers updateVisibility(x, y, R)
\* lights the grid cells within Chebyshev distance R of (x, y) and no other,
\* (2R+1)^2 of them when the square is not clipped by the edge of the grid.
C14_OpenFieldSquare ==
    (Queried /\ OpenField) =>
        /\ lights = Square(LastOrigin, RequestedRadius)
        /\ Unclipped(LastOrigin, RequestedRadius)
              => lightArea = (2 * RequestedRadius + 1) * (2 * RequestedRadius + 1)

\* the property of C14 for the queries whose radius argument is not 0
OpenFieldSquareButZero ==
    (Queried /\ OpenField /\ lastOp.r # 0) =>
        /\ lights = Square(LastOrigin, RequestedRadius)
        /\ Unclipped(LastOrigin, RequestedRadius)
              => lightArea = (2 * RequestedRadius + 1) * (2 * RequestedRadius + 1)

\* the directions of the 8 neighbours
Dirs == {d \in {-1, 0, 1} \X {-1, 0, 1} : d # <<0, 0>>}

\* the cell n steps from o in direction d
Step(o, d, n) == <<o[1] + n * d[1], o[2] + n * d[2]>>

\* k is a cell of a ridge one step above level e, one cell wide along the
\* straight line from o in direction d, i steps from o
RidgeAt(o, d, i, e) ==
    /\ Step(o, d, i) \in Cells
    /\ elevationGrid[Step(o, d, i)] = e + 1
    /\ elevationGrid[Step(o, d, i - 1)] <= e
    /\ Step(o, d, i + 1) \in Cells
    /\ elevationGrid[Step(o, d, i + 1)] <= e

\* C15: a ridge one cell wide and one step above the observer's level, straight
\* between the observer and a target beyond it, keeps the target out of lights.
C15_RidgeHidesTarget ==
    Queried =>
        \A d \in Dirs : \A i \in 1..SweepCap : \A j \in (i + 1)..SweepCap :
            (RidgeAt(LastOrigin, d, i, elevation) /\ Step(LastOrigin, d, j) \in Cells)
            => Step(LastOrigin, d, j) \notin lights

\* C15 happens: from level 0 the ridge is lit, the cells before it too, and
\* the target behind it, within the radius, is not
C15_Witness ==
    /\ Queried /\ elevation = 0
    /\ \E d \in Dirs : \E i \in 2..SweepCap :
          /\ RidgeAt(LastOrigin, d, i, elevation)
          /\ Step(LastOrigin, d, i) \in lights
          /\ Step(LastOrigin, d, i - 1) \in lights
          /\ i + 1 <= EffectiveRadius(lastOp.r)
          /\ Step(LastOrigin, d, i + 1) \notin lights

\* what updateVisibility from o with the radius argument R leaves in lights (C12)
LightsAtRadius(o, R) == RefLights(o, EffectiveRadius(R))

\* C16: for a fixed origin and obstruction state the lights of a query with
\* radius R1 are among the lights of the query with any radius R2 >= R1.
C16_RadiusMonotone ==
    (Queried /\ lastOp.r # Undef) =>
        \A R2 \in 0..(MaxRadius + 1) :
            R2 >= lastOp.r => lights \subseteq LightsAtRadius(LastOrigin, R2)

\* the property of C16 for the radii from 1 on
RadiusMonotoneFromOne ==
    (Queried /\ lastOp.r # Undef /\ lastOp.r >= 1) =>
        \A R2 \in 1..(MaxRadius + 1) :
            R2 >= lastOp.r => lights \subseteq LightsAtRadius(LastOrigin, R2)

\* C18: updateVisibility uses the radius argument whenever one is given, 0
\* included, and the default of the instance, 25 until setRadius replaces
\* it, only when it is omitted.
C18_SuppliedRadiusUsed ==
    /\ Queried => lights = RefLights(LastOrigin, RequestedRadius)
    /\ (lastOp.op = "none" \/ lastOp.op = "initialize") => radius = DefaultRadius
    /\ lastOp.op = "setRadius" => radius = lastOp.r

\* the property of C18 for the queries whose radius argument is not 0
SuppliedRadiusUsedButZero ==
    (Queried /\ lastOp.r # 0) => lights = RefLights(LastOrigin, RequestedRadius)

\* what isValidXY(c, g, n, t) has to return
ValidCell(c, g, n, t) ==
    /\ ready
    /\ c \in Cells
    /\ (g # "true" \/ c \notin gridnav)
    /\ (n # "true" \/ c \notin tools_no_wards)
    /\ (t # "true" \/ \A o \in TreesAt(c) : ~tree_state[o])

\* C17: isValidXY(x, y, checkGridnav, checkNoWards, checkTreeState) returns
\* true exactly if the instance is ready, (x, y) is a cell of the grid, and each
\* check that is asked for passes: the cell is not in gridnav, not in the
\* no-wards cells, in the footprint of no standing tree, of any elevation; an
\* omitted check passes, in every state that toggles of trees lead to.
C17_IsValidXY ==
    /\ lastOp.op = "isValidXY" =>
          (lastOp.res = "true" <=>
              ValidCell(LastOrigin, lastOp.flags[1], lastOp.flags[2], lastOp.flags[3]))
    /\ \A c \in Keys : \A g, n, t \in FlagArgs :
          isValidXY(c[1], c[2], g, n, t) <=> ValidCell(c, g, n, t)

\* C17 happens: with every check asked for, the corner of a cut tree shared
\* with a standing tree is not valid, and it is with the tree check omitted
C17_Witness ==
    /\ ready
    /\ lastOp.op = "isValidXY" /\ lastOp.res = "false"
    /\ lastOp.flags = <<"true", "true", "true">>
    /\ Len(TreePtsAt(tree_relations, lastOp.x, lastOp.y)) >= 2
    /\ ~tree_state[TreePtsAt(tree_relations, lastOp.x, lastOp.y)[1]]
    /\ isValidXY(lastOp.x, lastOp.y, "true", "true", "omitted")

\* C19: for every cell (x, y) of the grid GridXYtoImageXY(ImageXYtoGridXY(x, y))
\* and WorldXYtoGridXY(GridXYtoWorldXY(x, y)) are (x, y), and the flip of the
\* rows maps the cells of the grid one to one onto the cells of the grid.
C19_RoundTrips ==
    /\ lastOp.op = "convert" =>
          (lastOp.image = LastOrigin /\ lastOp.world = LastOrigin)
    /\ {ImageXYtoGridXY(c[1], c[2]) : c \in Cells} = Cells
    /\ {GridXYtoImageXY(c[1], c[2]) : c \in Cells} = Cells
    /\ \A c, d \in Cells :
          ImageXYtoGridXY(c[1], c[2]) = ImageXYtoGridXY(d[1], d[2]) => c = d

\* C19 happens: a cell that the flip of the rows moves, and whose world
\* coordinates are negative, has come back from both conversions
C19_Witness ==
    /\ lastOp.op = "convert"
    /\ ImageXYtoGridXY(lastOp.x, lastOp.y) # LastOrigin
    /\ GridXYtoWorldXY(lastOp.x, lastOp.y)[1] < 0
    /\ GridXYtoWorldXY(GridW - 1, GridH - 1) = <<WorldMaxX, WorldMaxY>>
    /\ lastOp.image = LastOrigin /\ lastOp.world = LastOrigin

\* a step that completes the newest initialize, the load callback having run
FreshlyBuilt == lastOp.op = "load" /\ lastOp.x = Len(handlers) /\ terrain = "built"

\* what a step may do to the elevation wall cache
ElevationWallCacheStep ==
    /\ \A E \in DOMAIN elevationWalls' : elevationWalls'[E] = ElevationWallSet(E)'
    /\ (lastOp'.op = "initialize" \/ FreshlyBuilt') => elevationWalls' = EmptyMap
    /\ lastOp'.op # "initialize" =>
          /\ \A E \in DOMAIN elevationWalls :
                E \in DOMAIN elevationWalls' /\ elevationWalls'[E] = elevationWalls[E]
          /\ \A E \in DOMAIN elevationWalls' \ DOMAIN elevationWalls :
                /\ Queried'
                /\ E = elevationGrid[LastOrigin']
                /\ DOMAIN elevationWalls' = DOMAIN elevationWalls \cup {E}

\* C21: the elevation wall cache is empty right after initialization, gains an
\* entry for E only when updateVisibility is first run from a cell of elevation
\* E, every entry is at every state the set of the cells higher than E with a
\* neighbour in the grid that is not, and no updateVisibility, toggleTree or
\* setRadius removes or alters an entry.
C21_ElevationWallCacheLazy == [][ElevationWallCacheStep]_vars

\* C21 happens: after a re-initialization the cache, emptied, holds the entry
\* of the one level a query was run from, walls in it, another level known
C21_Witness ==
    /\ Queried /\ Len(handlers) = MaxInits
    /\ DOMAIN elevationWalls = {elevation}
    /\ elevationWalls[elevation] # {}
    /\ Levels # {elevation}

\* C22: after every updateVisibility that has returned, area, the number of
\* cells the sweep has touched before the filter, is at least lightArea, and
\* elevation is the value of the elevation grid at the origin of that call.
C22_AreaAndElevation ==
    Queried =>
        /\ area >= lightArea
        /\ lightArea >= 0
        /\ LastOrigin \in DOMAIN elevationGrid
        /\ elevation = elevationGrid[LastOrigin]

\* C22 happens: a query from the higher of two levels has touched cells that
\* the filter has dropped, and lit others
C22_Witness ==
    /\ Queried
    /\ area > lightArea /\ lightArea > 0
    /\ elevation > 0
    /\ \E c \in Cells : elevationGrid[c] # elevation

\* C23: the key2pt memo cache is scoped to one instance and cleared when that
\* instance re-initializes: key2pt called through an instance never returns a
\* point memoized through another instance, and no entry memoized through an
\* instance before one of its initialize calls is present after that call.
C23_MemoScopedToInstance ==
    /\ lastOp.op = "key2pt" => lastOp.pt.by = lastOp.inst
    /\ \A k \in DOMAIN key2pt_cache :
          key2pt_cache[k].by = 1 => key2pt_cache[k].gen = Len(handlers)

\* the first half of the property of C23: no point crosses from one instance
\* to another
MemoNotShared == lastOp.op = "key2pt" => lastOp.pt.by = lastOp.inst

\* the second half of the property of C23: initialize leaves no older entry
MemoClearedByInitialize ==
    \A k \in DOMAIN key2pt_cache :
        key2pt_cache[k].by = 1 => key2pt_cache[k].gen = Len(handlers)

\* the image the terrain of the instance was built from
BuiltMap == handlers[Len(handlers)].map

\* the pixel of the tree band of map m that cell c of the grid is read from
MarkerPixel(m, c) ==
    TreePixel(m, GridXYtoImageXY(c[1], c[2])[1], GridXYtoImageXY(c[1], c[2])[2])

\* the tree-marker cells of map m: green and blue channels zero
Markers(m) == {c \in Cells : MarkerPixel(m, c)[2] = 0 /\ MarkerPixel(m, c)[3] = 0}

\* the origin (px - 0.5, py - 0.5) of the tree of marker cell c, doubled
OriginOf(c) == <<2 * c[1] - 1, 2 * c[2] - 1>>

\* the registry of the trees is the one the markers of map m call for
RegistryOf(m) ==
    /\ NoDup(tree)
    /\ Range(tree) = {OriginOf(c) : c \in Markers(m)}
    /\ DOMAIN tree_elevations = Range(tree)
    /\ DOMAIN tree_blocks = Range(tree)
    /\ DOMAIN tree_state = Range(tree)
    /\ \A c \in Markers(m) :
          /\ tree_elevations[OriginOf(c)] = MarkerPixel(m, c)[1] + TreeElevationOffset
          /\ Len(tree_blocks[OriginOf(c)]) = 4
          /\ NoDup(tree_blocks[OriginOf(c)])
          /\ Range(tree_blocks[OriginOf(c)]) =
                {<<x, y>> : x \in {c[1] - 1, c[1]}, y \in {c[2] - 1, c[2]}}
    /\ DOMAIN tree_relations \subseteq Keys
    /\ \A k \in Keys :
          /\ k \in DOMAIN tree_relations => NoDup(tree_relations[k])
          /\ Range(TreePtsAt(tree_relations, k[1], k[2])) =
                {o \in Range(tree) : k \in Range(tree_blocks[o])}

\* what a step may do to the registry of the trees
TreeRegistryStep ==
    /\ (terrain = "built")' => RegistryOf(BuiltMap)'
    /\ FreshlyBuilt' => \A o \in Range(tree') : tree_state'[o]
    /\ (lastOp'.op = "toggleTree" \/ lastOp'.op = "updateVisibility") =>
          UNCHANGED <<tree, tree_blocks, tree_elevations, tree_relations>>

\* C24: for every tree-marker cell (px, py), green and blue channels zero, the
\* builder registers one tree, standing at first, of blocking elevation red + 40
\* and with a footprint of the 4 distinct cells {px-1, px} x {py-1, py}; the
\* reverse index lists a tree at a corner exactly if the corner is one of the 4
\* cells of its footprint; and toggleTree and updateVisibility change neither
\* the footprints, nor the elevations, nor the reverse index.
C24_TreeRegistryBuilt == [][TreeRegistryStep]_vars

\* C24 happens: on a map of three trees, two of them of different elevations
\* sharing two corners and one with corners outside the grid, a query has been
\* run after a tree was cut
C24_Witness ==
    /\ Queried /\ terrain = "built"
    /\ Cardinality(Markers(BuiltMap)) = 3
    /\ \E o \in Range(tree) : ~tree_state[o]
    /\ \E o, q \in Range(tree) :
          /\ tree_elevations[o] # tree_elevations[q]
          /\ Cardinality(Footprint(o) \cap Footprint(q)) = 2
    /\ \E o \in Range(tree) : Footprint(o) \cap Cells # Footprint(o)

\* C25: an updateVisibility that fails, its origin without an elevation entry,
\* leaves lights, lightArea, area, elevation, the elevation wall cache, the
\* standing flags of the trees and every tree wall set as they were before the
\* call: the result of the query before it can still be read.
C25_FailedQueryChangesNothing ==
    [][(lastOp'.op = "updateVisibility" /\ lastOp'.res = "TypeError") =>
          UNCHANGED <<lights, lightArea, area, elevation, elevationWalls,
                      tree_state, treeWalls>>]_vars

\* C25 happens: a query from outside the grid has thrown on a ready instance
\* that holds the lights of an earlier query and a cut tree
C25_Witness ==
    /\ ready
    /\ lastOp.op = "updateVisibility" /\ lastOp.res = "TypeError"
    /\ LastOrigin \notin DOMAIN elevationGrid
    /\ lights # {} /\ lightArea = Cardinality(lights) /\ area >= lightArea
    /\ elevation \in DOMAIN elevationWalls
    /\ \E o \in Range(tree) : ~tree_state[o]

\* the descriptors of the sequence ds that name no tree of the set T
Others(ds, T) == SelectSeq(ds, LAMBDA d : d \notin T)

\* what a toggleTree at corner k leaves as it was
ToggleFrame(k) ==
    /\ UNCHANGED <<lights, lightArea, area, elevation, elevationWalls>>
    /\ DOMAIN tree_state' = DOMAIN tree_state
    /\ \A o \in DOMAIN tree_state \ TreesAt(k) : tree_state'[o] = tree_state[o]
    /\ DOMAIN treeWalls' = DOMAIN treeWalls
    /\ \A L \in DOMAIN treeWalls :
          /\ DOMAIN treeWalls'[L] = DOMAIN treeWalls[L]
          /\ \A c \in DOMAIN treeWalls[L] :
                LET touched == {o \in TreesAt(k) :
                                   L < tree_elevations[o] /\ c \in Footprint(o)}
                IN Others(treeWalls'[L][c], touched) = Others(treeWalls[L][c], touched)

\* C26: toggleTree modifies only the standing flags of the trees sharing the
\* corner given and, at the footprint corners of those trees, the tree wall
\* sets of the levels strictly below the elevation of each; lights, lightArea,
\* area, elevation, the elevation wall cache, the tree wall sets of the levels at
\* or above the elevation of the tree, and the entries of every other tree are
\* left unchanged.
C26_ToggleTreeFrame ==
    [][lastOp'.op = "toggleTree" => ToggleFrame(xy2key(lastOp'.x, lastOp'.y))]_vars

\* C26 happens: a toggle at a corner shared by two trees, after a query that
\* lit cells, has changed a level that lies at or above the elevation of one
\* of the two, a third tree standing elsewhere
C26_Witness ==
    /\ ready /\ pre.n >= 1
    /\ lastOp.op = "toggleTree" /\ lastOp.res = "true"
    /\ lights # {} /\ lightArea = Cardinality(lights)
    /\ Cardinality(TreesAt(LastOrigin)) = 2
    /\ pre.ts # tree_state
    /\ \E o \in TreesAt(LastOrigin) : \E L \in Levels :
          L >= tree_elevations[o] /\ treeWalls[L] # pre.tw[L]
    /\ Range(tree) \ TreesAt(LastOrigin) # {}

\* C27: in every state after the first updateVisibility that has returned,
\* later toggleTree, setRadius and initialize calls included, lightArea is the
\* number of the cells in lights.
C27_LightAreaCountsLights ==
    lightArea # Undef => lightArea = Cardinality(lights)

\* the property of C27 for an instance that initialize was called on once
LightAreaCountsLightsInitializedOnce ==
    (lightArea # Undef /\ Len(handlers) <= 1) => lightArea = Cardinality(lights)

====
